---- MODULE Spec2Model ----
(***************************************************************************)
(* Model of src/src/main.rs: the inflation path simulator                  *)
(* (simulate_inflation), the ensemble aggregation                          *)
(* (run_multiple_simulations) and the savings solver                       *)
(* (calculate_monthly_savings).                                            *)
(*                                                                         *)
(* f64 values are modelled as exact rationals extended with the IEEE       *)
(* special values NaN, +Infinity and -Infinity; rounding is not modelled.  *)
(* Sequences are 1-indexed: the code's index i is index i + 1 here.        *)
(***************************************************************************)
EXTENDS Integers, Sequences, FiniteSets, TLC

\* ------------------------------------------------------------------ bounds
MaxYears == 3
MaxSims == 3
MaxPathLen == 2
BandSims == 11

\* --------------------------------------------------------- f64 arithmetic
Abs(i) == IF i < 0 THEN 0 - i ELSE i

RECURSIVE GCD(_, _)
GCD(a, b) == IF b = 0 THEN a ELSE GCD(b, a % b)

NaN == [k |-> "nan", n |-> 0, d |-> 1]
PInf == [k |-> "pinf", n |-> 0, d |-> 1]
NInf == [k |-> "ninf", n |-> 0, d |-> 1]

\* the finite value n/d (d # 0), in lowest terms with a positive denominator
Fin(n, d) ==
    LET g == GCD(Abs(n), Abs(d))
        s == IF d < 0 THEN 0 - 1 ELSE 1
    IN [k |-> "fin", n |-> (s * n) \div g, d |-> Abs(d) \div g]

Zero == Fin(0, 1)
One == Fin(1, 1)

IsFinite(a) == a.k = "fin"
IsNaN(a) == a.k = "nan"

\* sign of a value that is not NaN: -1, 0 or 1
Sgn(a) ==
    IF a.k = "pinf" THEN 1
    ELSE IF a.k = "ninf" THEN 0 - 1
    ELSE IF a.n > 0 THEN 1 ELSE IF a.n < 0 THEN 0 - 1 ELSE 0

InfOf(s) == IF s > 0 THEN PInf ELSE NInf

FNeg(a) ==
    IF IsNaN(a) THEN NaN
    ELSE IF a.k = "pinf" THEN NInf
    ELSE IF a.k = "ninf" THEN PInf
    ELSE Fin(0 - a.n, a.d)

FAdd(a, b) ==
    IF IsNaN(a) \/ IsNaN(b) THEN NaN
    ELSE IF IsFinite(a) /\ IsFinite(b) THEN Fin(a.n * b.d + b.n * a.d, a.d * b.d)
    ELSE IF IsFinite(a) THEN b
    ELSE IF IsFinite(b) THEN a
    ELSE IF a.k = b.k THEN a ELSE NaN

FSub(a, b) == FAdd(a, FNeg(b))

FMul(a, b) ==
    IF IsNaN(a) \/ IsNaN(b) THEN NaN
    ELSE IF IsFinite(a) /\ IsFinite(b) THEN Fin(a.n * b.n, a.d * b.d)
    ELSE IF Sgn(a) = 0 \/ Sgn(b) = 0 THEN NaN
    ELSE InfOf(Sgn(a) * Sgn(b))

\* a / b; a zero divisor is +0.0 wherever the program divides
FDiv(a, b) ==
    IF IsNaN(a) \/ IsNaN(b) THEN NaN
    ELSE IF IsFinite(a) /\ IsFinite(b)
         THEN IF b.n = 0
              THEN IF a.n = 0 THEN NaN ELSE InfOf(Sgn(a))
              ELSE Fin(a.n * b.d, a.d * b.n)
    ELSE IF IsFinite(b) THEN InfOf(Sgn(a) * (IF Sgn(b) < 0 THEN 0 - 1 ELSE 1))
    ELSE IF IsFinite(a) THEN Zero
    ELSE NaN

\* a <= b as f64 compares: false as soon as an operand is NaN
FLeq(a, b) ==
    IF IsNaN(a) \/ IsNaN(b) THEN FALSE
    ELSE IF a.k = "ninf" \/ b.k = "pinf" THEN TRUE
    ELSE IF a.k = "pinf" \/ b.k = "ninf" THEN FALSE
    ELSE a.n * b.d <= b.n * a.d

FLt(a, b) == FLeq(a, b) /\ a # b

\* f64::max: the larger operand, the other operand when one is NaN
FMax(a, b) ==
    IF IsNaN(a) THEN b
    ELSE IF IsNaN(b) THEN a
    ELSE IF FLeq(a, b) THEN b ELSE a

\* f64::powi for an exponent e >= 0: multiplication by repeated squaring, 1.0
\* for the exponent 0
RECURSIVE Powi(_, _)
Powi(x, e) ==
    IF e = 0 THEN One
    ELSE LET sq == FMul(x, x)
             h == Powi(sq, e \div 2)
         IN IF e % 2 = 1 THEN FMul(x, h) ELSE h

\* f64::powf(x, 1.0 / 12.0): NaN for a negative base, the exact twelfth root
\* of 0, of 1, of +Infinity and of the twelfth power of a small rational
RootCandidates == {Fin(a, b) : a \in 1..2, b \in 1..2}

Powf12(x) ==
    IF IsNaN(x) THEN NaN
    ELSE IF Sgn(x) < 0 THEN NaN
    ELSE IF x = Zero THEN Zero
    ELSE IF x = PInf THEN PInf
    ELSE CHOOSE r \in RootCandidates : Powi(r, 12) = x

\* Iterator::sum over a Vec<f64>
RECURSIVE FSum(_)
FSum(s) == IF s = <<>> THEN Zero ELSE FAdd(FSum(SubSeq(s, 1, Len(s) - 1)), s[Len(s)])


\* ------------------------------------------------------------- inputs
\* values the callers pass; main passes 0.02, 0.005, 0.3, 0.02, 1000, 0.05
StartRates == {Fin(0 - 1, 1), Zero, Fin(2, 1)}
Volatilities == {Zero, One}
MeanReversions == {Zero, Fin(1, 2)}
LongTermMeans == {Fin(2, 1)}
\* samples of the standard normal distribution
StdNormalSamples == {Fin(0 - 4, 1), Fin(3, 1)}
Goals == {Fin(0 - 1000, 1), Zero, Fin(1000, 1), Fin(12000, 1)}
AnnualReturns == {Fin(0 - 2, 1), Fin(0 - 1, 1), Zero}
InflationRates == {Zero, Fin(1, 10)}

RECURSIVE SeqsOfLen(_, _)
SeqsOfLen(S, n) ==
    IF n = 0 THEN {<<>>}
    ELSE {Append(s, x) : s \in SeqsOfLen(S, n - 1), x \in S}

InflationPaths == UNION {SeqsOfLen(InflationRates, n) : n \in 0..MaxPathLen}

\* -------------------------------------------------------------- state
VARIABLES
    op,               \* the entry point called: "simulate", "aggregate", "solve"
    pc,               \* "run" while the call executes, "done" after it ended
    outcome,          \* "none", "returned" or "panic"
    years, num_simulations, start_rate, volatility, mean_reversion,
    long_term_mean,   \* parameters of simulate_inflation / run_multiple_simulations
    rates,            \* simulate_inflation: the vector being built, <<>> outside a call
    all_simulations,  \* run_multiple_simulations: the ensemble
    sim,              \* number of elements of all_simulations already overwritten
    year,             \* the loop variable of the per-year loop
    mean_rates, lower_bound, upper_bound,
    goal, annual_return, inflation_rates,  \* parameters of calculate_monthly_savings
    future_goal,      \* calculate_monthly_savings: the running goal
    consumed,         \* number of rates the reversed iterator has yielded
    result            \* the f64 calculate_monthly_savings returned

simParams == <<years, num_simulations, start_rate, volatility, mean_reversion, long_term_mean>>
aggVars == <<all_simulations, sim, year, mean_rates, lower_bound, upper_bound>>
solveVars == <<goal, annual_return, inflation_rates, future_goal, consumed, result>>
vars == <<op, pc, outcome, simParams, rates, aggVars, solveVars>>

\* ------------------------------------------------ simulate_inflation
\* the loop written `for _ in 0..years`
SimIterationsFromZero(y) == y

\* number of iterations of `for _ in 1..years`
SimIterations(y) == IF y >= 1 THEN y - 1 ELSE 0

\* Normal::new(0.0, volatility).sample(): mean + std_dev * z
NormalSample(vol, z) == FAdd(Zero, FMul(vol, z))

\* the body of the loop: the rate pushed after `last`
NewRate(last, shock) ==
    LET drift == FMul(mean_reversion, FSub(long_term_mean, last))
    IN FMax(FAdd(FAdd(last, drift), shock), Zero)

SimRunning == rates # <<>>
SimLoopDone == SimRunning /\ Len(rates) - 1 >= SimIterations(years)

\* one iteration of the loop of simulate_inflation
SimStep ==
    /\ pc = "run" /\ op \in {"simulate", "aggregate"}
    /\ SimRunning /\ Len(rates) - 1 < SimIterations(years)
    /\ \E z \in StdNormalSamples :
          rates' = Append(rates, NewRate(rates[Len(rates)], NormalSample(volatility, z)))
    /\ UNCHANGED <<op, pc, outcome, simParams, aggVars, solveVars>>

\* simulate_inflation called on its own returns rates
SimReturn ==
    /\ pc = "run" /\ op = "simulate" /\ SimLoopDone
    /\ pc' = "done" /\ outcome' = "returned"
    /\ UNCHANGED <<op, simParams, rates, aggVars, solveVars>>

\* --------------------------------------------- run_multiple_simulations
\* vec![vec![0.0; years]; num_simulations]
ZeroEnsemble(m, y) == [i \in 1..m |-> [j \in 1..y |-> Zero]]

\* the map written |sim| sim[0]
YearRatesFirst(sims, y) == [i \in 1..Len(sims) |-> sims[i][1]]

\* all_simulations.iter().map(|sim| sim[year]).collect(), year counted from 0
YearRates(sims, y) == [i \in 1..Len(sims) |-> sims[i][y + 1]]

\* insertion of x into the ascending sequence s, after its equals
RECURSIVE InsertAsc(_, _)
InsertAsc(s, x) ==
    IF s = <<>> THEN <<x>>
    ELSE IF FLeq(s[Len(s)], x) THEN Append(s, x)
    ELSE Append(InsertAsc(SubSeq(s, 1, Len(s) - 1), x), s[Len(s)])

\* the comparator written b.partial_cmp(a): the descending sort
RECURSIVE SortDesc(_)
SortDesc(s) ==
    IF s = <<>> THEN <<>>
    ELSE LET rest == SortDesc(SubSeq(s, 1, Len(s) - 1))
             x == s[Len(s)]
             k == Cardinality({i \in 1..Len(rest) : FLeq(x, rest[i])})
         IN SubSeq(rest, 1, k) \o <<x>> \o SubSeq(rest, k + 1, Len(rest))

\* sort_by(|a, b| a.partial_cmp(b).unwrap()): the stable ascending sort
RECURSIVE SortAsc(_)
SortAsc(s) ==
    IF s = <<>> THEN <<>>
    ELSE InsertAsc(SortAsc(SubSeq(s, 1, Len(s) - 1)), s[Len(s)])

\* year_rates.iter().sum::<f64>() / num_simulations as f64
MeanOf(year_rates, m) == FDiv(FSum(year_rates), Fin(m, 1))

\* the upper index written num_simulations * (9 / 10)
UpperRankZero(m) == m * (9 \div 10)

\* the indices num_simulations / 10 and num_simulations * 9 / 10 (usize)
LowerRank(m) == m \div 10
UpperRank(m) == (m * 9) \div 10

\* the loop over all_simulations calls simulate_inflation
AggCallSim ==
    /\ pc = "run" /\ op = "aggregate"
    /\ sim < num_simulations /\ ~SimRunning
    /\ rates' = <<start_rate>>
    /\ UNCHANGED <<op, pc, outcome, simParams, aggVars, solveVars>>

\* *sim = simulate_inflation(...): the returned vector replaces the element
AggStoreSim ==
    /\ pc = "run" /\ op = "aggregate"
    /\ sim < num_simulations /\ SimLoopDone
    /\ all_simulations' = [all_simulations EXCEPT ![sim + 1] = rates]
    /\ sim' = sim + 1
    /\ rates' = <<>>
    /\ UNCHANGED <<op, pc, outcome, simParams, year, mean_rates, lower_bound,
                   upper_bound, solveVars>>

\* one iteration of `for year in 0..years`; indexing year_rates out of its
\* bounds panics
AggYear ==
    /\ pc = "run" /\ op = "aggregate"
    /\ sim = num_simulations /\ ~SimRunning
    /\ year < years
    /\ LET year_rates == SortAsc(YearRates(all_simulations, year))
           lo == LowerRank(num_simulations)
           hi == UpperRank(num_simulations)
       IN IF lo >= Len(year_rates) \/ hi >= Len(year_rates)
          THEN /\ pc' = "done" /\ outcome' = "panic"
               /\ UNCHANGED <<year, mean_rates, lower_bound, upper_bound>>
          ELSE /\ mean_rates' = [mean_rates EXCEPT ![year + 1] =
                                    MeanOf(year_rates, num_simulations)]
               /\ lower_bound' = [lower_bound EXCEPT ![year + 1] = year_rates[lo + 1]]
               /\ upper_bound' = [upper_bound EXCEPT ![year + 1] = year_rates[hi + 1]]
               /\ year' = year + 1
               /\ UNCHANGED <<pc, outcome>>
    /\ UNCHANGED <<op, simParams, rates, all_simulations, sim, solveVars>>

\* (mean_rates, lower_bound, upper_bound) is returned
AggReturn ==
    /\ pc = "run" /\ op = "aggregate"
    /\ sim = num_simulations /\ ~SimRunning
    /\ year >= years
    /\ pc' = "done" /\ outcome' = "returned"
    /\ UNCHANGED <<op, simParams, rates, aggVars, solveVars>>

\* -------------------------------------------- calculate_monthly_savings
\* the iterator written without .rev()
DeflateIndexForward(len, done) == done + 1

\* inflation_rates.iter().rev(): the index (from 1) of the rate yielded after
\* `done` rates were yielded, in a slice of `len` rates
DeflateIndex(len, done) == len - done

\* one iteration of the deflation loop
DeflateStep ==
    /\ pc = "run" /\ op = "solve"
    /\ consumed < Len(inflation_rates)
    /\ LET rate == inflation_rates[DeflateIndex(Len(inflation_rates), consumed)]
       IN future_goal' = FDiv(future_goal, FAdd(One, rate))
    /\ consumed' = consumed + 1
    /\ UNCHANGED <<op, pc, outcome, simParams, rates, aggVars, goal, annual_return,
                   inflation_rates, result>>

\* the annuity payment the function returns
Payment(fg, y, ar) ==
    LET monthly_return == FSub(Powf12(FAdd(One, ar)), One)
        months == y * 12
    IN FDiv(FMul(fg, monthly_return),
            FSub(Powi(FAdd(One, monthly_return), months), One))

SolveReturn ==
    /\ pc = "run" /\ op = "solve"
    /\ consumed >= Len(inflation_rates)
    /\ result' = Payment(future_goal, years, annual_return)
    /\ pc' = "done" /\ outcome' = "returned"
    /\ UNCHANGED <<op, simParams, rates, aggVars, goal, annual_return,
                   inflation_rates, future_goal, consumed>>

\* ------------------------------------------------------ specifications
NoSolve ==
    /\ goal = Zero /\ annual_return = Zero /\ inflation_rates = <<>>
    /\ future_goal = Zero /\ consumed = 0 /\ result = Zero

NoAgg ==
    /\ all_simulations = <<>> /\ sim = 0 /\ year = 0
    /\ mean_rates = <<>> /\ lower_bound = <<>> /\ upper_bound = <<>>

SimParamsIn(Ys, Ms) ==
    /\ years \in Ys /\ num_simulations \in Ms
    /\ start_rate \in StartRates /\ volatility \in Volatilities
    /\ mean_reversion \in MeanReversions /\ long_term_mean \in LongTermMeans

\* simulate_inflation is entered: rates = vec![start_rate]
InitSimulate ==
    /\ op = "simulate" /\ pc = "run" /\ outcome = "none"
    /\ SimParamsIn(0..MaxYears, {0})
    /\ rates = <<start_rate>>
    /\ NoAgg /\ NoSolve

\* run_multiple_simulations is entered
InitAggregateIn(Ys, Ms) ==
    /\ op = "aggregate" /\ pc = "run" /\ outcome = "none"
    /\ SimParamsIn(Ys, Ms)
    /\ rates = <<>>
    /\ all_simulations = ZeroEnsemble(num_simulations, years)
    /\ sim = 0 /\ year = 0
    /\ mean_rates = [j \in 1..years |-> Zero]
    /\ lower_bound = [j \in 1..years |-> Zero]
    /\ upper_bound = [j \in 1..years |-> Zero]
    /\ NoSolve

InitAggregate == InitAggregateIn(0..MaxYears, 0..MaxSims)

\* calculate_monthly_savings is entered: future_goal = goal
InitSolve ==
    /\ op = "solve" /\ pc = "run" /\ outcome = "none"
    /\ years \in 0..MaxYears /\ num_simulations = 0
    /\ start_rate = Zero /\ volatility = Zero
    /\ mean_reversion = Zero /\ long_term_mean = Zero
    /\ rates = <<>>
    /\ NoAgg
    /\ goal \in Goals /\ annual_return \in AnnualReturns
    /\ inflation_rates \in InflationPaths
    /\ future_goal = goal /\ consumed = 0 /\ result = Zero

Init == InitSimulate \/ InitAggregate \/ InitSolve

Next ==
    \/ SimStep \/ SimReturn
    \/ AggCallSim \/ AggStoreSim \/ AggYear \/ AggReturn
    \/ DeflateStep \/ SolveReturn

Spec == Init /\ [][Next]_vars

\* ensembles large enough that both ranks are interior, over two years, from
\* a start rate that is not negative
InitBands == InitAggregateIn({2}, {BandSims}) /\ FLeq(Zero, start_rate)

NextBands == SimStep \/ AggCallSim \/ AggStoreSim \/ AggYear \/ AggReturn

SpecBands == InitBands /\ [][NextBands]_vars

\* ------------------------------------------------------------ properties
SimulateDone == op = "simulate" /\ pc = "done"
AggregateDone == op = "aggregate" /\ pc = "done"
SolveDone == op = "solve" /\ pc = "done"

\* C1: for years >= 1, simulate_inflation returns exactly `years` elements and
\* element 0 is start_rate; the same holds of every path stored in the ensemble
C1_LengthAndStart ==
    years >= 1 =>
        /\ SimulateDone => Len(rates) = years /\ rates[1] = start_rate
        /\ op = "aggregate" =>
              \A i \in 1..sim : /\ Len(all_simulations[i]) = years
                                /\ all_simulations[i][1] = start_rate

C1_Witness ==
    /\ SimulateDone /\ years >= 3 /\ Len(rates) = years
    /\ rates[2] # rates[1] /\ rates[3] # rates[2]

\* C2: every element of the path simulate_inflation returns is >= 0, index 0
\* included, for any start_rate
C2_AllNonNegative ==
    SimulateDone => \A i \in 1..Len(rates) : FLeq(Zero, rates[i])

\* C3: simulate_inflation returns the empty path for years = 0 and
\* [start_rate] for years = 1
C3_ZeroAndOneYear ==
    SimulateDone =>
        /\ years = 0 => rates = <<>>
        /\ years = 1 => rates = <<start_rate>>

\* C4: with annual_return = 0, years >= 1 and goal > 0,
\* calculate_monthly_savings returns the finite value
\* (deflated goal) / (years * 12)
C4_ZeroReturnInstallments ==
    (SolveDone /\ annual_return = Zero /\ years >= 1 /\ FLt(Zero, goal)) =>
        /\ IsFinite(result)
        /\ result = FDiv(future_goal, Fin(years * 12, 1))

\* C5: run_multiple_simulations with num_simulations < 1 and
\* calculate_monthly_savings with goal <= 0 or annual_return <= -1 end in an
\* InvalidParameter error: no value is returned and no index is out of range
InvalidInput ==
    \/ op = "aggregate" /\ num_simulations < 1
    \/ op = "solve" /\ (FLeq(goal, Zero) \/ FLeq(annual_return, Fin(0 - 1, 1)))

C5_InvalidRejected ==
    (pc = "done" /\ InvalidInput) => outcome = "invalid_parameter"

\* the number of elements of col below v, and of those not above v
CountLt(col, v) == Cardinality({i \in 1..Len(col) : FLt(col[i], v)})
CountLeq(col, v) == Cardinality({i \in 1..Len(col) : FLeq(col[i], v)})

\* v is the element at 0-indexed rank r of the ascending sort of col
IsAtRank(col, r, v) ==
    /\ \E i \in 1..Len(col) : col[i] = v
    /\ CountLt(col, v) <= r /\ r < CountLeq(col, v)

\* the values the ensemble's paths hold at year index y (from 0)
Column(y) == [i \in 1..num_simulations |-> all_simulations[i][y + 1]]

RanksInterior ==
    /\ num_simulations \div 10 \notin {0, num_simulations - 1}
    /\ (num_simulations * 9) \div 10 \notin {0, num_simulations - 1}

\* C7 as stated: with interior ranks, lower_bound <= mean_rates <= upper_bound
\* at every year
C7_BandOrder ==
    (AggregateDone /\ outcome = "returned" /\ RanksInterior) =>
        \A y \in 1..years : /\ FLeq(lower_bound[y], mean_rates[y])
                            /\ FLeq(mean_rates[y], upper_bound[y])

\* C7 as amended: with interior ranks, lower_bound <= upper_bound at every
\* year
C7_LowerLeUpper ==
    (AggregateDone /\ RanksInterior) =>
        /\ outcome = "returned"
        /\ \A y \in 1..years : FLeq(lower_bound[y], upper_bound[y])

C7_Witness ==
    /\ AggregateDone /\ outcome = "returned" /\ RanksInterior
    /\ \E y \in 1..years : FLt(lower_bound[y], upper_bound[y])

\* C8: with num_simulations = 1 and years >= 1, mean_rates, lower_bound and
\* upper_bound all equal the single simulated path
C8_SinglePath ==
    (AggregateDone /\ num_simulations = 1 /\ years >= 1) =>
        /\ outcome = "returned"
        /\ mean_rates = all_simulations[1]
        /\ lower_bound = all_simulations[1]
        /\ upper_bound = all_simulations[1]

C8_Witness ==
    /\ AggregateDone /\ outcome = "returned"
    /\ num_simulations = 1 /\ years >= 2
    /\ mean_rates[2] # mean_rates[1]

\* the goal divided by (1 + rate) for the k highest-indexed rates, the
\* highest index first
RECURSIVE DeflatedAfter(_)
DeflatedAfter(k) ==
    IF k = 0 THEN goal
    ELSE FDiv(DeflatedAfter(k - 1),
              FAdd(One, inflation_rates[Len(inflation_rates) - k + 1]))

TenPercentThenZero == <<Fin(1, 10), Zero>>

\* C9: the deflation loop divides the running goal by (1 + rate) for the
\* highest-indexed rate first and the index-0 rate last, once per element; for
\* the path [0.10, 0.0] and the goal 1000 the running values are 1000, 1000/1.0
\* and 1000/1.0/1.10
C9_ReverseDeflation ==
    op = "solve" =>
        /\ consumed <= Len(inflation_rates)
        /\ pc = "done" => consumed = Len(inflation_rates)
        /\ future_goal = DeflatedAfter(consumed)
        /\ (inflation_rates = TenPercentThenZero /\ goal = Fin(1000, 1)) =>
              /\ consumed = 0 => future_goal = Fin(1000, 1)
              /\ consumed = 1 => future_goal = Fin(1000, 1)
              /\ consumed = 2 => future_goal = Fin(10000, 11)

C9_Witness ==
    /\ SolveDone /\ inflation_rates = TenPercentThenZero /\ goal = Fin(1000, 1)
    /\ consumed = 2 /\ future_goal = Fin(10000, 11)

====
